---- MODULE Spec2Model ----
(***************************************************************************)
(* Model of simplex-go: exact fractions (fraction/fraction.go), the        *)
(* simplex tableau (tableau/tableau.go) and the driver loop (main.go).     *)
(* Indices are 0-based as in the source; -1 is the "not found" index.      *)
(***************************************************************************)
EXTENDS Integers, Sequences, FiniteSets, TLC

\* ------------------------------------------------------------------------
\* Bounds of the model
\* ------------------------------------------------------------------------
\* Simplify is tried on every pair (n, d) with |n|, |d| <= MaxInt.
MaxInt == 6

\* Transform is tried on tableaus whose cells are the integers -MaxCell .. MaxCell.
MaxCell == 2

\* A run starts from tableaus whose constraint coefficients are -1 .. MaxCoef, or
\* whose objective entries are the fractions n/d with |n| <= MaxNum, 1 <= d <= MaxDen.
MaxCoef == 2

MaxNum == 3

MaxDen == 2

\* ------------------------------------------------------------------------
\* Constants of the program
\* ------------------------------------------------------------------------
\* MakeFeasible stops when its counter passes 20, main's loop when it passes 100.
MaxFeasibilityIterations == 20

MaxIterations == 100

\* ------------------------------------------------------------------------
\* Go integer arithmetic: / and % truncate toward zero
\* ------------------------------------------------------------------------
Abs(x) == IF x < 0 THEN -x ELSE x

GoQuot(a, b) ==
  LET q == Abs(a) \div Abs(b)
  IN  IF (a < 0) # (b < 0) THEN -q ELSE q

GoRem(a, b) == a - b * GoQuot(a, b)

Max(a, b) == IF a > b THEN a ELSE b

Min(a, b) == IF a < b THEN a ELSE b

\* ------------------------------------------------------------------------
\* fraction.Fraction
\* ------------------------------------------------------------------------
Fraction(n, d) == [N |-> n, D |-> d]

\* The Go zero value Fraction{}.
ZeroValue == Fraction(0, 0)

RECURSIVE gcdLoop(_, _)
gcdLoop(a, b) ==
  LET f == GoRem(a, b)
  IN  IF f = 0 THEN b ELSE gcdLoop(b, f)

gcd(n) ==
  LET a == Max(n.D, n.N)
      b == Min(n.D, n.N)
  IN  IF b = 0 \/ a = 0 THEN 1 ELSE gcdLoop(a, b)

Simplify(n) ==
  LET f  == gcd(n)
      d1 == GoQuot(n.D, f)
      n1 == GoQuot(n.N, f)
  IN  IF d1 < 0 THEN Fraction(n1 * (-1), d1 * (-1)) ELSE Fraction(n1, d1)

Add(a, b) == Simplify(Fraction(a.N * b.D + a.D * b.N, a.D * b.D))

Sub(a, b) == Simplify(Fraction(a.N * b.D - b.N * a.D, a.D * b.D))

Mul(a, b) == Simplify(Fraction(a.N * b.N, a.D * b.D))

Div(a, b) == Simplify(Fraction(a.N * b.D, a.D * b.N))

\* Neg without the factor -1.
NegDropped(a) == Mul(a, Fraction(1, 1))

Neg(a) == Mul(a, Fraction(-1, 1))

\* ------------------------------------------------------------------------
\* tableau.Tableau: Table[i][j] for 0 <= i < rows, 0 <= j < cols
\* ------------------------------------------------------------------------
NumRows(t) == Cardinality(DOMAIN t.Table)

NumCols(t) == Cardinality(DOMAIN t.Table[0])

IsPivotValid(r, s) == r >= 0 /\ s >= 0

\* Entering column: the scan of the objective row (first loop of Pivot).
RECURSIVE EnteringLoop(_, _, _, _)
EnteringLoop(t, j, s, pivotValue) ==
  IF j >= NumCols(t) - 1 THEN s
  ELSE LET e == t.Table[NumRows(t) - 1][j]
           take ==
             /\ ~t.dirtX[j]
             /\ \/ /\ t.IsMaximization
                   /\ e.N < 0
                   /\ (s = -1 \/ e.N < pivotValue.N)
                \/ /\ ~t.IsMaximization
                   /\ e.N > 0
                   /\ (s = -1 \/ e.N > pivotValue.N)
       IN  IF take THEN EnteringLoop(t, j + 1, j, e)
                   ELSE EnteringLoop(t, j + 1, s, pivotValue)

EnteringColumn(t) == EnteringLoop(t, 0, -1, Fraction(0, 1))

\* Leaving row: the ratio test over the constraint rows (second loop of Pivot).
RatioReplaces(r, ratio, minRatio) ==
  \/ r = -1
  \/ /\ ratio.N > 0
     /\ \/ minRatio.N <= 0
        \/ ratio.N * minRatio.D < minRatio.N * ratio.D

\* A row that takes part in the ratio test, with >= 0 in place of > 0.
IsCandidateRowNonNegative(t, i, s) == ~t.dirtY[i] /\ t.Table[i][s].N >= 0

\* A row that takes part in the ratio test, were the row masks not looked at.
IsCandidateRowAnyMask(t, i, s) == t.Table[i][s].N > 0

\* A row that takes part in the ratio test.
IsCandidateRow(t, i, s) == ~t.dirtY[i] /\ t.Table[i][s].N > 0

RECURSIVE LeavingLoop(_, _, _, _, _)
LeavingLoop(t, s, i, r, minRatio) ==
  IF i >= NumRows(t) - 1 THEN r
  ELSE IF IsCandidateRow(t, i, s)
       THEN LET ratio == Div(t.Table[i][NumCols(t) - 1], t.Table[i][s])
            IN  IF RatioReplaces(r, ratio, minRatio)
                THEN LeavingLoop(t, s, i + 1, i, ratio)
                ELSE LeavingLoop(t, s, i + 1, r, minRatio)
       ELSE LeavingLoop(t, s, i + 1, r, minRatio)

LeavingRow(t, s) == LeavingLoop(t, s, 0, -1, Fraction(0, 0))

\* Which return statement of Pivot is taken.
PivotSite(t) ==
  LET s == EnteringColumn(t)
  IN  IF s = -1 THEN "no_entering_column"
      ELSE IF LeavingRow(t, s) = -1 THEN "no_limiting_row"
      ELSE "pivot_found"

\* What Pivot returns when it finds no entering column, and no limiting row.
NoEnteringColumnReturn == <<-1, -1>>

NoLimitingRowReturn == <<-1, -1>>

Pivot(t) ==
  LET s == EnteringColumn(t)
  IN  IF s = -1 THEN NoEnteringColumnReturn
      ELSE LET r == LeavingRow(t, s)
           IN  IF r = -1 THEN NoLimitingRowReturn ELSE <<r, s>>

\* PivotForFeasibility: first unmasked constraint row with negative RHS.
RECURSIVE NegativeRowLoop(_, _)
NegativeRowLoop(t, i) ==
  IF i >= NumRows(t) - 1 THEN -1
  ELSE IF t.Table[i][NumCols(t) - 1].N < 0 /\ ~t.dirtY[i] THEN i
  ELSE NegativeRowLoop(t, i + 1)

\* PivotForFeasibility: unmasked column of row r with the most negative entry.
RECURSIVE NegativeColumnLoop(_, _, _, _, _)
NegativeColumnLoop(t, r, j, s, mostNegative) ==
  IF j >= NumCols(t) - 1 THEN s
  ELSE IF /\ t.Table[r][j].N < 0
          /\ ~t.dirtX[j]
          /\ (s = -1 \/ t.Table[r][j].N < mostNegative.N)
       THEN NegativeColumnLoop(t, r, j + 1, j, t.Table[r][j])
       ELSE NegativeColumnLoop(t, r, j + 1, s, mostNegative)

PivotForFeasibility(t) ==
  LET r == NegativeRowLoop(t, 0)
  IN  IF r = -1 THEN <<-1, -1>>
      ELSE <<r, NegativeColumnLoop(t, r, 0, -1, Fraction(0, 1))>>

IsFeasible(a) ==
  \A i \in 0 .. NumRows(a) - 2 : ~(a.Table[i][NumCols(a) - 1].N < 0)

IsOptimal(a) ==
  \A j \in 0 .. NumCols(a) - 2 :
    ~ \/ (a.IsMaximization /\ a.Table[NumRows(a) - 1][j].N < 0)
      \/ (~a.IsMaximization /\ a.Table[NumRows(a) - 1][j].N > 0)

\* Copy: fresh slices holding the same cells, masks and labels.
Copy(t) ==
  [Table          |-> [i \in DOMAIN t.Table |->
                        [j \in DOMAIN t.Table[i] |-> t.Table[i][j]]],
   dirtX          |-> [j \in DOMAIN t.dirtX |-> t.dirtX[j]],
   dirtY          |-> [i \in DOMAIN t.dirtY |-> t.dirtY[i]],
   RowNames       |-> [i \in DOMAIN t.RowNames |-> t.RowNames[i]],
   ColNames       |-> [j \in DOMAIN t.ColNames |-> t.ColNames[j]],
   IsMaximization |-> t.IsMaximization]

\* Transform works on two tableaus: the receiver t, which it reads, and the
\* copy b, which it writes.  mem = [t |-> receiver, b |-> copy].
\* A copy that shares the receiver's rows: a write reaches both tableaus.
SetCellShared(mem, i, j, v) ==
  [mem EXCEPT !.b.Table[i][j] = v, !.t.Table[i][j] = v]

SetCell(mem, i, j, v) == [mem EXCEPT !.b.Table[i][j] = v]

SetMasks(mem, r, s) == [mem EXCEPT !.b.dirtY[r] = TRUE, !.b.dirtX[s] = TRUE]

SwapNames(mem, r, s) ==
  [mem EXCEPT !.b.RowNames[r] = mem.b.ColNames[s],
              !.b.ColNames[s] = mem.b.RowNames[r]]

\* The quotient taken by -a_rs instead of a_rs.
fillElementNegated(a, i, j, r, s) ==
  LET pivotElement == a.Table[r][s]
      term1 == Mul(a.Table[i][j], pivotElement)
      term2 == Mul(a.Table[i][s], a.Table[r][j])
  IN  Div(Sub(term1, term2), Neg(pivotElement))

fillElement(a, i, j, r, s) ==
  LET pivotElement == a.Table[r][s]
      term1 == Mul(a.Table[i][j], pivotElement)
      term2 == Mul(a.Table[i][s], a.Table[r][j])
  IN  Div(Sub(term1, term2), pivotElement)

\* for j: if j != s { b.Table[r][j] = Div(t.Table[r][j], pivotElement) }
RECURSIVE PivotRowLoop(_, _, _, _, _)
PivotRowLoop(mem, r, s, pivotElement, j) ==
  IF j >= NumCols(mem.t) THEN mem
  ELSE IF j # s
       THEN PivotRowLoop(SetCell(mem, r, j, Div(mem.t.Table[r][j], pivotElement)),
                         r, s, pivotElement, j + 1)
       ELSE PivotRowLoop(mem, r, s, pivotElement, j + 1)

\* for j: if j != s { b.Table[i][j] = fillElement(t, i, j, r, s) }
RECURSIVE FillRowLoop(_, _, _, _, _)
FillRowLoop(mem, i, r, s, j) ==
  IF j >= NumCols(mem.t) THEN mem
  ELSE IF j # s
       THEN FillRowLoop(SetCell(mem, i, j, fillElement(mem.t, i, j, r, s)),
                        i, r, s, j + 1)
       ELSE FillRowLoop(mem, i, r, s, j + 1)

\* for i: if i != r { fill row i; b.Table[i][s] = Neg(Div(t.Table[i][s], pivotElement)) }
RECURSIVE OtherRowsLoop(_, _, _, _, _)
OtherRowsLoop(mem, r, s, pivotElement, i) ==
  IF i >= NumRows(mem.t) THEN mem
  ELSE IF i # r
       THEN LET filled == FillRowLoop(mem, i, r, s, 0)
            IN  OtherRowsLoop(
                  SetCell(filled, i, s,
                          Neg(Div(filled.t.Table[i][s], pivotElement))),
                  r, s, pivotElement, i + 1)
       ELSE OtherRowsLoop(mem, r, s, pivotElement, i + 1)

\* The whole call: the receiver as the call leaves it (.t) and the result (.b).
TransformMem(t, r, s) ==
  LET m0 == SetMasks([t |-> t, b |-> Copy(t)], r, s)
      pivotElement == m0.t.Table[r][s]
      m1 == SetCell(m0, r, s, Div(Fraction(1, 1), pivotElement))
      m2 == PivotRowLoop(m1, r, s, pivotElement, 0)
      m3 == OtherRowsLoop(m2, r, s, pivotElement, 0)
  IN  SwapNames(m3, r, s)

Transform(t, r, s) == TransformMem(t, r, s).b

\* GetSolution: a map from label to value.  Rows are written in index order, so
\* of two rows carrying the same label the later one stays.
SolutionKeys(a) ==
  {"objective"}
    \cup (IF NumCols(a) > 1 THEN {a.RowNames[i] : i \in 0 .. NumRows(a) - 2} ELSE {})
    \cup {a.ColNames[j] : j \in 0 .. NumCols(a) - 2}

LastRowNamed(a, k) ==
  CHOOSE i \in 0 .. NumRows(a) - 2 :
    /\ a.RowNames[i] = k
    /\ \A i2 \in 0 .. NumRows(a) - 2 : a.RowNames[i2] = k => i2 <= i

GetSolution(a) ==
  [k \in SolutionKeys(a) |->
     IF NumCols(a) > 1 /\ \E i \in 0 .. NumRows(a) - 2 : a.RowNames[i] = k
     THEN a.Table[LastRowNamed(a, k)][NumCols(a) - 1]
     ELSE IF k = "objective" THEN a.Table[NumRows(a) - 1][NumCols(a) - 1]
     ELSE Fraction(0, 1)]

\* Tableau.Init(rows, cols) followed by SetMaximization(isMax).
TableauInit(rows, cols, isMax) ==
  [Table          |-> [i \in 0 .. rows - 1 |-> [j \in 0 .. cols - 1 |-> ZeroValue]],
   dirtX          |-> [j \in 0 .. cols - 1 |-> FALSE],
   dirtY          |-> [i \in 0 .. rows - 1 |-> FALSE],
   RowNames       |-> [i \in 0 .. rows - 1 |->
                        IF i = rows - 1 THEN "F" ELSE "s" \o ToString(i + 1)],
   ColNames       |-> [j \in 0 .. cols - 1 |->
                        IF j = cols - 1 THEN "const" ELSE "-x" \o ToString(j + 1)],
   IsMaximization |-> isMax]

\* fraction.Read once the text "n/d" is split and parsed: (n, d) then Simplify.
ReadFraction(n, d) == Simplify(Fraction(n, d))

\* ------------------------------------------------------------------------
\* State
\* ------------------------------------------------------------------------
VARIABLES
  frac,       \* the fraction Simplify works on (its receiver)
  fracIn,     \* the (N, D) pair that fraction was built from
  st,         \* main's tableau
  pc,         \* where the program is
  iteration,  \* the loop counter of MakeFeasible or of main's loop
  pivotCall,  \* the last call of Pivot or PivotForFeasibility: input and result
  xform,      \* the last call of Transform: input, pivot, input afterwards, result
  prevXform,  \* the call of Transform before that one
  feasRet,    \* what MakeFeasible returned, and from which return statement
  solution,   \* the map GetSolution returned
  problem,    \* the parsed problem main hands to ConvertToTableau
  transforms  \* how many calls of Transform the run has made

vars == <<frac, fracIn, st, pc, iteration, pivotCall, xform, prevXform,
          feasRet, solution, problem, transforms>>

NoCall == [op |-> "none"]

\* The tableau as main builds it: Init, SetMaximization, then every cell read.
ReadTableau(rows, cols, isMax, cells) ==
  [TableauInit(rows, cols, isMax) EXCEPT !.Table = cells]

\* ------------------------------------------------------------------------
\* Simplify on its own
\* ------------------------------------------------------------------------
InitFrac ==
  /\ fracIn \in [N : -MaxInt .. MaxInt, D : -MaxInt .. MaxInt]
  /\ frac = fracIn
  /\ pc = "raw"
  /\ st = TableauInit(2, 2, TRUE)
  /\ iteration = 0
  /\ pivotCall = NoCall
  /\ xform = NoCall
  /\ prevXform = NoCall
  /\ feasRet = NoCall
  /\ solution = NoCall
  /\ problem = NoCall
  /\ transforms = 0

DoSimplify ==
  /\ pc = "raw"
  /\ frac' = Simplify(frac)
  /\ pc' = "simplified"
  /\ UNCHANGED <<problem, transforms, fracIn, st, iteration, pivotCall, xform,
                 prevXform, feasRet,
                 solution>>

NextFrac == DoSimplify

SpecFrac == InitFrac /\ [][NextFrac]_vars

\* ------------------------------------------------------------------------
\* Transform on its own: any tableau, any pivot cell that is not zero
\* ------------------------------------------------------------------------
\* The tableaus Transform is tried on: objective row and one constraint row,
\* with one decision column and cells in -MaxCell .. MaxCell, or with two
\* decision columns and cells in -1 .. 1; the last column is the RHS.
TransformVals == {ReadFraction(n, 1) : n \in -MaxCell .. MaxCell}

UnitVals == {ReadFraction(n, 1) : n \in {-1, 0, 1}}

InitTransform ==
  /\ \/ \E isMax \in BOOLEAN, cells \in [{0, 1} -> [{0, 1} -> TransformVals]] :
          st = ReadTableau(2, 2, isMax, cells)
     \/ \E isMax \in BOOLEAN, cells \in [{0, 1} -> [{0, 1, 2} -> UnitVals]] :
          st = ReadTableau(2, 3, isMax, cells)
  /\ pc = "transform"
  /\ iteration = 0
  /\ frac = ZeroValue
  /\ fracIn = ZeroValue
  /\ pivotCall = NoCall
  /\ xform = NoCall
  /\ prevXform = NoCall
  /\ feasRet = NoCall
  /\ solution = NoCall
  /\ problem = NoCall
  /\ transforms = 0

\* What a call of Transform on the cell (r, s) of main's tableau leaves behind.
TransformCall(r, s) ==
  LET mem == TransformMem(st, r, s)
  IN  /\ st' = mem.b
      /\ xform' = [op |-> "Transform", in |-> st, r |-> r, s |-> s,
                   inAfter |-> mem.t, out |-> mem.b]
      /\ prevXform' = xform
      /\ transforms' = transforms + 1

\* One call of Transform, as any caller may make it.
DoTransform ==
  /\ pc = "transform"
  /\ \E r \in DOMAIN st.Table, s \in DOMAIN st.Table[0] :
       /\ st.Table[r][s].N # 0
       /\ TransformCall(r, s)
  /\ pc' = "transformed"
  /\ UNCHANGED <<problem, frac, fracIn, iteration, pivotCall, feasRet,
                 solution>>

\* A second call on the result of the first.
DoTransformAgain ==
  /\ pc = "transformed"
  /\ \E r \in DOMAIN st.Table, s \in DOMAIN st.Table[0] :
       /\ st.Table[r][s].N # 0
       /\ TransformCall(r, s)
  /\ pc' = "transformed_twice"
  /\ UNCHANGED <<problem, frac, fracIn, iteration, pivotCall, feasRet,
                 solution>>

NextTransform == DoTransform \/ DoTransformAgain

SpecTransform == InitTransform /\ [][NextTransform]_vars

\* ------------------------------------------------------------------------
\* A run of main: feasibility check, MakeFeasible, the loop, GetSolution
\* ------------------------------------------------------------------------
\* The 3 x 3 tableau with constraint coefficients coef, right-hand sides rhs,
\* objective entries obj and objective constant 0.
RunCells(coef, rhs, obj) ==
  [i \in {0, 1, 2} |-> [j \in {0, 1, 2} |->
     IF i < 2 THEN (IF j < 2 THEN coef[i][j] ELSE rhs[i])
     ELSE IF j < 2 THEN obj[j] ELSE ReadFraction(0, 1)]]

CoefVals == {ReadFraction(n, 1) : n \in -1 .. MaxCoef}

ObjFractions == {ReadFraction(n, d) : n \in -MaxNum .. MaxNum, d \in 1 .. MaxDen}

\* The cells main reads for k constraints -x_i <= -1 (x_i >= 1) in k variables,
\* objective row all ones: each constraint row needs a feasibility pivot of
\* its own.
LowerBoundCells(k) ==
  [i \in 0 .. k |->
     [j \in 0 .. k |->
        ReadFraction(IF i = k THEN (IF j = k THEN 0 ELSE 1)
                     ELSE IF j = k \/ j = i THEN -1
                     ELSE 0, 1)]]

InitRun ==
  /\ \/ \E isMax \in BOOLEAN,
            coef \in [{0, 1} -> [{0, 1} -> CoefVals]],
            rhs \in [{0, 1} -> UnitVals],
            obj \in [{0, 1} -> UnitVals] :
          st = ReadTableau(3, 3, isMax, RunCells(coef, rhs, obj))
     \/ \E isMax \in BOOLEAN,
            rhs \in [{0, 1} -> {ReadFraction(0, 1), ReadFraction(1, 1)}],
            obj \in [{0, 1} -> ObjFractions] :
          st = ReadTableau(3, 3, isMax,
                 RunCells([i \in {0, 1} |-> [j \in {0, 1} |-> ReadFraction(1, 1)]],
                          rhs, obj))
     \/ \E isMax \in BOOLEAN,
            k \in MaxFeasibilityIterations - 1 .. MaxFeasibilityIterations + 1 :
          st = ReadTableau(k + 1, k + 1, isMax, LowerBoundCells(k))
  /\ pc = "start"
  /\ iteration = 0
  /\ frac = ZeroValue
  /\ fracIn = ZeroValue
  /\ pivotCall = NoCall
  /\ xform = NoCall
  /\ prevXform = NoCall
  /\ feasRet = NoCall
  /\ solution = NoCall
  /\ problem = NoCall
  /\ transforms = 0

PivotCallRecord(t) ==
  [op |-> "Pivot", in |-> t, enter |-> EnteringColumn(t), ret |-> Pivot(t),
   site |-> PivotSite(t)]

FeasibilityCallRecord(t) ==
  [op |-> "PivotForFeasibility", in |-> t, ret |-> PivotForFeasibility(t)]

\* main: if !st.IsFeasible() { if !st.MakeFeasible() { return } }
CheckFeasible ==
  /\ pc = "start"
  /\ pc' = IF IsFeasible(st) THEN "main_loop" ELSE "make_feasible"
  /\ iteration' = 1
  /\ UNCHANGED <<problem, transforms, frac, fracIn, st, pivotCall, xform,
                 prevXform, feasRet, solution>>

\* MakeFeasible: the loop condition fails, return true; main's loop starts.
MakeFeasibleDone ==
  /\ pc = "make_feasible"
  /\ IsFeasible(st)
  /\ feasRet' = [op |-> "MakeFeasible", ret |-> TRUE, site |-> "feasible"]
  /\ pc' = "main_loop"
  /\ iteration' = 1
  /\ UNCHANGED <<problem, transforms, frac, fracIn, st, pivotCall, xform,
                 prevXform, solution>>

\* MakeFeasible: no valid pivot, return false; main returns.
MakeFeasibleNoPivot ==
  /\ pc = "make_feasible"
  /\ ~IsFeasible(st)
  /\ LET rs == PivotForFeasibility(st)
     IN  ~IsPivotValid(rs[1], rs[2])
  /\ pivotCall' = FeasibilityCallRecord(st)
  /\ feasRet' = [op |-> "MakeFeasible", ret |-> FALSE, site |-> "no_pivot"]
  /\ pc' = "exit"
  /\ UNCHANGED <<problem, transforms, frac, fracIn, st, iteration, xform,
                 prevXform, solution>>

\* MakeFeasible: one pivot; past the cap, return false and main returns.
MakeFeasibleStep ==
  /\ pc = "make_feasible"
  /\ ~IsFeasible(st)
  /\ LET rs == PivotForFeasibility(st)
     IN  /\ IsPivotValid(rs[1], rs[2])
         /\ TransformCall(rs[1], rs[2])
  /\ pivotCall' = FeasibilityCallRecord(st)
  /\ iteration' = iteration + 1
  /\ IF iteration + 1 > MaxFeasibilityIterations
     THEN /\ feasRet' = [op |-> "MakeFeasible", ret |-> FALSE, site |-> "cap"]
          /\ pc' = "exit"
     ELSE UNCHANGED <<feasRet, pc>>
  /\ UNCHANGED <<problem, frac, fracIn, solution>>

\* main's loop: IsOptimal, break.
MainOptimal ==
  /\ pc = "main_loop"
  /\ IsOptimal(st)
  /\ pc' = "final"
  /\ UNCHANGED <<problem, transforms, frac, fracIn, st, iteration, pivotCall,
                 xform, prevXform,
                 feasRet, solution>>

\* main's loop: Pivot returns an invalid pair, break.
MainNoPivot ==
  /\ pc = "main_loop"
  /\ ~IsOptimal(st)
  /\ LET rs == Pivot(st)
     IN  ~IsPivotValid(rs[1], rs[2])
  /\ pivotCall' = PivotCallRecord(st)
  /\ pc' = "final"
  /\ UNCHANGED <<problem, transforms, frac, fracIn, st, iteration, xform,
                 prevXform, feasRet, solution>>

\* main's loop: one pivot (b := st.Transform(r, s); st = b.Copy()); past the
\* cap, break.
MainStep ==
  /\ pc = "main_loop"
  /\ ~IsOptimal(st)
  /\ LET rs == Pivot(st)
         mem == TransformMem(st, rs[1], rs[2])
     IN  /\ IsPivotValid(rs[1], rs[2])
         /\ st' = Copy(mem.b)
         /\ xform' = [op |-> "Transform", in |-> st, r |-> rs[1], s |-> rs[2],
                      inAfter |-> mem.t, out |-> mem.b]
  /\ prevXform' = xform
  /\ transforms' = transforms + 1
  /\ pivotCall' = PivotCallRecord(st)
  /\ iteration' = iteration + 1
  /\ pc' = IF iteration + 1 > MaxIterations THEN "final" ELSE pc
  /\ UNCHANGED <<problem, frac, fracIn, feasRet, solution>>

\* main after the loop: GetSolution.
Finish ==
  /\ pc = "final"
  /\ solution' = GetSolution(st)
  /\ pc' = "done"
  /\ UNCHANGED <<problem, transforms, frac, fracIn, st, iteration, pivotCall,
                 xform, prevXform, feasRet>>

NextRun ==
  \/ CheckFeasible
  \/ MakeFeasibleDone
  \/ MakeFeasibleNoPivot
  \/ MakeFeasibleStep
  \/ MainOptimal
  \/ MainNoPivot
  \/ MainStep
  \/ Finish

SpecRun == InitRun /\ [][NextRun]_vars

\* ------------------------------------------------------------------------
\* The parser path: a parsed problem, its tableau, and the same run
\* ------------------------------------------------------------------------
MaxObjCoef == 3

Term(c, v) == [Coefficient |-> c, Variable |-> v]

Equation(lhs, rhs, rel) == [LHS |-> lhs, RHS |-> rhs, Relation |-> rel]

\* The variable names of a list of terms (a term with no name is a constant).
TermVariables(lhs) ==
  {lhs[k].Variable : k \in {k \in DOMAIN lhs : lhs[k].Variable # ""}}

\* What ParseProblem returns for texts that parse: the objective (an equation
\* with relation "=" and right-hand side "0"), the constraints, and the set
\* of the variable names met in them.
ParseProblem(objective, constraints, isMax) ==
  [op                |-> "ParseProblem",
   ObjectiveFunction |-> Equation(objective, Fraction(0, 1), "="),
   Constraints       |-> constraints,
   IsMaximization    |-> isMax,
   Variables         |-> TermVariables(objective) \cup
                         UNION {TermVariables(constraints[i].LHS) :
                                  i \in DOMAIN constraints}]

\* sort.Strings on the variable names: the names the inputs use, in its order.
SortedNames == <<"x1", "x2">>

SortStrings(names) == SelectSeq(SortedNames, LAMBDA v : v \in names)

\* The column of a variable: the scan "for j, v := range decisionVars", which
\* stops at the first match; -1 when the scan ends without one.
ColumnOf(decisionVars, v) ==
  IF \E j \in DOMAIN decisionVars : decisionVars[j] = v
  THEN (CHOOSE j \in DOMAIN decisionVars :
          /\ decisionVars[j] = v
          /\ \A k \in 1 .. j - 1 : decisionVars[k] # v) - 1
  ELSE -1

\* The terms of one constraint, in order: a coefficient goes to its column, a
\* constant is subtracted from the right-hand side.
RECURSIVE ConstraintTermsLoop(_, _, _, _, _)
ConstraintTermsLoop(t, i, lhs, k, decisionVars) ==
  IF k > Len(lhs) THEN t
  ELSE LET term == lhs[k]
           last == NumCols(t) - 1
           j    == ColumnOf(decisionVars, term.Variable)
           next == IF term.Variable # ""
                   THEN IF j >= 0
                        THEN [t EXCEPT !.Table[i][j] = term.Coefficient]
                        ELSE t
                   ELSE [t EXCEPT !.Table[i][last] =
                                    Sub(t.Table[i][last], term.Coefficient)]
       IN  ConstraintTermsLoop(next, i, lhs, k + 1, decisionVars)

\* A ">=" row is negated, every column of it.
NegateRow(t, i) ==
  [t EXCEPT !.Table[i] = [j \in DOMAIN t.Table[i] |-> Neg(t.Table[i][j])]]

\* The constraint rows, one after the other.
RECURSIVE ConstraintsLoop(_, _, _, _)
ConstraintsLoop(t, constraints, i, decisionVars) ==
  IF i >= Len(constraints) THEN t
  ELSE LET constraint == constraints[i + 1]
           last   == NumCols(t) - 1
           rhs    == [t EXCEPT !.Table[i][last] = constraint.RHS]
           filled == ConstraintTermsLoop(rhs, i, constraint.LHS, 1, decisionVars)
           row    == IF constraint.Relation = ">=" THEN NegateRow(filled, i)
                     ELSE filled
       IN  ConstraintsLoop(row, constraints, i + 1, decisionVars)

\* The objective row: coefficients negated for a maximization; a constant is
\* added to (maximization) or subtracted from (minimization) the row's last
\* cell, which nothing else assigns.
RECURSIVE ObjectiveTermsLoop(_, _, _, _, _)
ObjectiveTermsLoop(t, lhs, k, decisionVars, isMax) ==
  IF k > Len(lhs) THEN t
  ELSE LET term   == lhs[k]
           objRow == NumRows(t) - 1
           last   == NumCols(t) - 1
           j      == ColumnOf(decisionVars, term.Variable)
           next   == IF term.Variable # ""
                     THEN IF j >= 0
                          THEN [t EXCEPT !.Table[objRow][j] =
                                  IF isMax THEN Neg(term.Coefficient)
                                  ELSE term.Coefficient]
                          ELSE t
                     ELSE [t EXCEPT !.Table[objRow][last] =
                             IF isMax
                             THEN Add(t.Table[objRow][last], term.Coefficient)
                             ELSE Sub(t.Table[objRow][last], term.Coefficient)]
       IN  ObjectiveTermsLoop(next, lhs, k + 1, decisionVars, isMax)

ConvertToTableau(p) ==
  LET decisionVars == SortStrings(p.Variables)
      numRows == Len(p.Constraints) + 1
      numCols == Len(decisionVars) + 1
      init    == TableauInit(numRows, numCols, p.IsMaximization)
      named   == [init EXCEPT !.ColNames =
                    [j \in 0 .. numCols - 1 |->
                       IF j = numCols - 1 THEN "const"
                       ELSE "-" \o decisionVars[j + 1]]]
      rows    == ConstraintsLoop(named, p.Constraints, 0, decisionVars)
  IN  ObjectiveTermsLoop(rows, p.ObjectiveFunction.LHS, 1, decisionVars,
                         p.IsMaximization)

\* The left-hand sides the inputs use: a1 x1 + a2 x2, a term with coefficient
\* 0 left out of the text.
Terms(a1, a2) ==
  (IF a1 = 0 THEN <<>> ELSE <<Term(Fraction(a1, 1), "x1")>>) \o
  (IF a2 = 0 THEN <<>> ELSE <<Term(Fraction(a2, 1), "x2")>>)

\* Problems in x1 and x2 with two constraints; among them
\* maximize 2x1 + 3x2 subject to x1 + x2 <= 4 and x1 + 3x2 <= 6.
InitSolve ==
  /\ \E isMax \in BOOLEAN, c \in [1 .. 2 -> 1 .. MaxObjCoef],
        a1 \in [1 .. 2 -> {0, 1}], a2 \in [1 .. 2 -> {0, 1, 3}],
        rel \in [1 .. 2 -> {"<=", ">=", "="}], rhs \in [1 .. 2 -> {4, 6}] :
       problem = ParseProblem(
                   Terms(c[1], c[2]),
                   [i \in 1 .. 2 |->
                      Equation(Terms(a1[i], a2[i]), Fraction(rhs[i], 1), rel[i])],
                   isMax)
  /\ st = TableauInit(1, 1, TRUE)
  /\ pc = "parsed"
  /\ iteration = 0
  /\ frac = ZeroValue
  /\ fracIn = ZeroValue
  /\ pivotCall = NoCall
  /\ xform = NoCall
  /\ prevXform = NoCall
  /\ feasRet = NoCall
  /\ solution = NoCall
  /\ transforms = 0

\* main: st := parser.ConvertToTableau(problem).
Assemble ==
  /\ pc = "parsed"
  /\ st' = ConvertToTableau(problem)
  /\ pc' = "start"
  /\ UNCHANGED <<problem, transforms, frac, fracIn, iteration, pivotCall, xform,
                 prevXform, feasRet, solution>>

NextSolve == Assemble \/ NextRun

SpecSolve == InitSolve /\ [][NextSolve]_vars

\* ------------------------------------------------------------------------
\* Properties
\* ------------------------------------------------------------------------
\* The greatest common divisor of two naturals, by its definition.
MathGcd(a, b) ==
  IF a = 0 THEN b
  ELSE IF b = 0 THEN a
  ELSE CHOOSE k \in 1 .. Min(a, b) :
         /\ a % k = 0
         /\ b % k = 0
         /\ \A k2 \in (k + 1) .. Min(a, b) : ~(a % k2 = 0 /\ b % k2 = 0)

\* C8: for all integers n and d with d # 0, Simplify on (n, d) yields (n', d')
\* with d' > 0, gcd(|n'|, d') = 1 and n'/d' = n/d; for n = 0 that is 0/1.
C8_SimplifyReduces ==
  (pc = "simplified" /\ fracIn.D # 0) =>
    /\ frac.D > 0
    /\ MathGcd(Abs(frac.N), frac.D) = 1
    /\ frac.N * fracIn.D = fracIn.N * frac.D

\* The same with the numerator 0 left out: what Simplify does achieve.
SimplifyReducesNonZero ==
  (pc = "simplified" /\ fracIn.D # 0 /\ fracIn.N # 0) =>
    /\ frac.D > 0
    /\ MathGcd(Abs(frac.N), frac.D) = 1
    /\ frac.N * fracIn.D = fracIn.N * frac.D

\* The cell c is the rational num/den, exactly.
IsRational(c, num, den) == c.D > 0 /\ den # 0 /\ c.N * den = num * c.D

\* Two cells are the same rational.
SameRational(c1, c2) == c1.D > 0 /\ c2.D > 0 /\ c1.N * c2.D = c2.N * c1.D

C7_TransformFrame ==
  xform.op = "Transform" =>
    LET in  == xform.in
        out == xform.out
        r   == xform.r
        s   == xform.s
    IN  /\ out.dirtY = [in.dirtY EXCEPT ![r] = TRUE]
        /\ out.dirtX = [in.dirtX EXCEPT ![s] = TRUE]
        /\ out.RowNames = [in.RowNames EXCEPT ![r] = in.ColNames[s]]
        /\ out.ColNames = [in.ColNames EXCEPT ![s] = in.RowNames[r]]
        /\ out.IsMaximization = in.IsMaximization
        /\ xform.inAfter = in

\* A second pivot on another row and column: the masks and labels of the first
\* pivot are carried along.
C7_Witness ==
  /\ xform.op = "Transform"
  /\ prevXform.op = "Transform"
  /\ xform.r # prevXform.r
  /\ xform.s # prevXform.s
  /\ xform.in.dirtY[prevXform.r]
  /\ xform.out.dirtY[prevXform.r]
  /\ xform.out.RowNames[xform.r] # xform.in.RowNames[xform.r]

RatLess(a, b) == a.N * b.D < b.N * a.D

ObjectiveRow(t) == t.Table[NumRows(t) - 1]

\* Every entry of the objective row is in lowest terms, denominator positive.
ObjectiveReduced(t) ==
  \A j \in 0 .. NumCols(t) - 2 :
    /\ ObjectiveRow(t)[j].D > 0
    /\ MathGcd(Abs(ObjectiveRow(t)[j].N), ObjectiveRow(t)[j].D) = 1

\* The unmasked non-RHS columns whose objective entry improves the objective.
ImprovingColumns(t) ==
  {j \in 0 .. NumCols(t) - 2 :
     /\ ~t.dirtX[j]
     /\ IF t.IsMaximization THEN ObjectiveRow(t)[j].N < 0
                            ELSE ObjectiveRow(t)[j].N > 0}

\* Column j is better than column k: more negative when maximizing, more
\* positive when minimizing, as rational values.
BetterColumn(t, j, k) ==
  IF t.IsMaximization THEN RatLess(ObjectiveRow(t)[j], ObjectiveRow(t)[k])
                      ELSE RatLess(ObjectiveRow(t)[k], ObjectiveRow(t)[j])

\* The entering column by value: the best improving column, lowest index on ties.
BestEnteringColumn(t) ==
  IF ImprovingColumns(t) = {} THEN -1
  ELSE CHOOSE j \in ImprovingColumns(t) :
         \A k \in ImprovingColumns(t) :
           /\ ~BetterColumn(t, k, j)
           /\ k < j => BetterColumn(t, j, k)

\* C2: Pivot's entering column is the unmasked non-RHS column whose objective
\* entry is the most negative rational value when maximizing (the most positive
\* when minimizing), lowest index on ties, for reduced fractions of any kind.
C2_EnteringColumnByValue ==
  (pivotCall.op = "Pivot" /\ ObjectiveReduced(pivotCall.in)) =>
    pivotCall.enter = BestEnteringColumn(pivotCall.in)

\* The unmasked constraint rows with a positive entry in column s and a ratio
\* RHS/entry that is not negative.
RatioRows(t, s) ==
  {i \in 0 .. NumRows(t) - 2 :
     /\ ~t.dirtY[i]
     /\ t.Table[i][s].N > 0
     /\ t.Table[i][NumCols(t) - 1].N >= 0}

\* ratio(i) < ratio(k), the ratios being RHS(row)/entry(row, s).
RatioLess(t, s, i, k) ==
  LET rhs(x) == t.Table[x][NumCols(t) - 1]
      e(x)   == t.Table[x][s]
  IN  (rhs(i).N * e(i).D) * (rhs(k).D * e(k).N)
        < (rhs(k).N * e(k).D) * (rhs(i).D * e(i).N)

\* The leaving row by the ratio test: smallest ratio, lowest index on ties.
BestLeavingRow(t, s) ==
  IF RatioRows(t, s) = {} THEN -1
  ELSE CHOOSE i \in RatioRows(t, s) :
         \A k \in RatioRows(t, s) :
           /\ ~RatioLess(t, s, k, i)
           /\ k < i => RatioLess(t, s, i, k)

\* C3: given the entering column s, Pivot returns the unmasked constraint row
\* with a positive entry in column s whose ratio RHS/entry is the smallest
\* non-negative one, lowest index on ties; a row of ratio 0 wins over a row of
\* positive ratio whatever their order.
C3_LeavingRowByRatio ==
  (/\ pivotCall.op = "Pivot"
   /\ pivotCall.enter # -1
   /\ RatioRows(pivotCall.in, pivotCall.enter) # {}) =>
    pivotCall.ret = <<BestLeavingRow(pivotCall.in, pivotCall.enter), pivotCall.enter>>

RunLocations == {"start", "make_feasible", "main_loop", "final", "done", "exit"}

\* C4: in every state of a run, Pivot finds no entering column if and only if
\* IsOptimal returns true.
C4_NoEnteringColumnIffOptimal ==
  pc \in RunLocations => ((EnteringColumn(st) = -1) <=> IsOptimal(st))

\* C5: during feasibility restoration, if PivotForFeasibility finds no unmasked
\* constraint row with negative RHS (row -1), IsFeasible returns true.
C5_NoNegativeRowIsFeasible ==
  (pc \in {"make_feasible", "exit"} /\ PivotForFeasibility(st)[1] = -1) =>
    IsFeasible(st)

\* What MakeFeasible returns when no feasibility pivot exists.
MakeFeasibleNoPivotReturn == FALSE

\* C6: the value MakeFeasible returns when the cap is passed differs from the
\* one it returns when no feasibility pivot exists, and the value Pivot returns
\* when no row limits the entering column differs from the one it returns when
\* there is no entering column.
C6_DistinctStatus ==
  /\ (pivotCall.op = "Pivot" /\ pivotCall.site = "no_limiting_row") =>
       pivotCall.ret # NoEnteringColumnReturn
  /\ (feasRet.op = "MakeFeasible" /\ feasRet.site = "cap") =>
       feasRet.ret # MakeFeasibleNoPivotReturn

AllCells(t) == {t.Table[i][j] : i \in DOMAIN t.Table, j \in DOMAIN t.Table[0]}

\* C9: from a tableau whose cells have positive denominators, every pivot cell
\* chosen by Pivot or PivotForFeasibility has a non-zero numerator, and no
\* tableau cell and no value of GetSolution has denominator zero.
C9_NoZeroDenominator ==
  pc \in RunLocations =>
    /\ xform.op = "Transform" => xform.in.Table[xform.r][xform.s].N # 0
    /\ \A c \in AllCells(st) : c.D # 0
    /\ pc = "done" => \A k \in DOMAIN solution : solution[k].D # 0

\* A finished run of two pivots, the second on a cell that is not an integer.
C9_Witness ==
  /\ pc = "done"
  /\ prevXform.op = "Transform"
  /\ xform.op = "Transform"
  /\ xform.in.Table[xform.r][xform.s].D > 1
  /\ \E k \in DOMAIN solution : solution[k].D > 1

\* maximize 2x1 + 3x2 subject to x1 + x2 <= 4 and x1 + 3x2 <= 6, as parsed.
ScenarioProblem ==
  ParseProblem(Terms(2, 3),
               <<Equation(Terms(1, 1), Fraction(4, 1), "<="),
                 Equation(Terms(1, 3), Fraction(6, 1), "<=")>>,
               TRUE)

\* C11: for maximize 2x1 + 3x2 subject to x1 + x2 <= 4 and x1 + 3x2 <= 6 the
\* run never leaves through MakeFeasible's failure, and when it is over
\* IsOptimal holds and GetSolution gives objective 9/1, 3/1 under the label
\* of x1 and 1/1 under the label of x2, each the last cell of the row that
\* carries the label.
C11_ScenarioSolution ==
  problem = ScenarioProblem =>
    /\ pc # "exit"
    /\ pc = "done" =>
         /\ IsOptimal(st)
         /\ solution["objective"] = Fraction(9, 1)
         /\ \E i \in 0 .. NumRows(st) - 2 :
              /\ st.RowNames[i] = "-x1"
              /\ st.Table[i][NumCols(st) - 1] = Fraction(3, 1)
              /\ solution["-x1"] = Fraction(3, 1)
         /\ \E i \in 0 .. NumRows(st) - 2 :
              /\ st.RowNames[i] = "-x2"
              /\ st.Table[i][NumCols(st) - 1] = Fraction(1, 1)
              /\ solution["-x2"] = Fraction(1, 1)

\* C12: MakeFeasible makes at most 20 transforms, and when it has returned
\* false the tableau it leaves is not feasible (a tableau made feasible by 20
\* transforms or fewer makes it return true).
C12_MakeFeasibleCap ==
  /\ pc \in {"make_feasible", "exit"} => transforms <= MaxFeasibilityIterations
  /\ (feasRet.op = "MakeFeasible" /\ ~feasRet.ret) => ~IsFeasible(st)

\* C13: when main's loop pivots a feasible tableau on the pair Pivot returned,
\* the result of Transform is feasible too: no constraint row of it, masked or
\* not, has a negative RHS.
C13_PivotKeepsFeasible ==
  ( /\ pivotCall.op = "Pivot"
    /\ IsPivotValid(pivotCall.ret[1], pivotCall.ret[2])
    /\ xform.op = "Transform"
    /\ xform.in = pivotCall.in
    /\ <<xform.r, xform.s>> = pivotCall.ret
    /\ IsFeasible(xform.in) ) => IsFeasible(xform.out)

\* Every row and column mask that is set stays set.
MasksOnlySet ==
  /\ \A i \in DOMAIN st.dirtY : st.dirtY[i] => st'.dirtY[i]
  /\ \A j \in DOMAIN st.dirtX : st.dirtX[j] => st'.dirtX[j]

\* The last Transform was called on a constraint row and a decision column
\* that were both unmasked.
PivotUnmasked ==
  xform.op = "Transform" =>
    /\ xform.r \in 0 .. NumRows(xform.in) - 2
    /\ xform.s \in 0 .. NumCols(xform.in) - 2
    /\ ~xform.in.dirtY[xform.r]
    /\ ~xform.in.dirtX[xform.s]

\* Each call of Transform masked a row and a column of its own, and there are
\* no more calls than constraint rows or decision columns.
TransformsBounded ==
  /\ Cardinality({i \in DOMAIN st.dirtY : st.dirtY[i]}) = transforms
  /\ Cardinality({j \in DOMAIN st.dirtX : st.dirtX[j]}) = transforms
  /\ transforms <= Min(NumRows(st) - 1, NumCols(st) - 1)

\* main's loop has not passed its cap.
CapNotReached ==
  pc \in {"main_loop", "final", "done"} => iteration <= MaxIterations

RunOver == pc \in {"done", "exit"}

\* The guards of the run's steps: some step can be taken.
StepEnabled ==
  \/ pc = "start"
  \/ pc = "make_feasible" /\ IsFeasible(st)
  \/ pc = "make_feasible" /\ ~IsFeasible(st)
        /\ PivotForFeasibility(st) \in (-1 .. NumRows(st) - 2) \X (-1 .. NumCols(st) - 2)
  \/ pc = "main_loop" /\ IsOptimal(st)
  \/ pc = "main_loop" /\ ~IsOptimal(st)
        /\ Pivot(st) \in (-1 .. NumRows(st) - 2) \X (-1 .. NumCols(st) - 2)
  \/ pc = "final"

\* How far the run is from its end: the place in main first, then the
\* constraint rows not pivoted yet.
PlaceRank ==
  CASE pc = "start" -> 5
    [] pc = "make_feasible" -> 4
    [] pc = "main_loop" -> 3
    [] pc = "final" -> 2
    [] pc = "done" -> 1
    [] OTHER -> 0

RunMeasure == PlaceRank * NumRows(st) + (NumRows(st) - 1 - transforms)

\* C14: over a whole run (MakeFeasible, then main's loop) masks only go from
\* false to true, every pivot is on an unmasked row and an unmasked column, so
\* that each row and each column is pivoted at most once and there are at most
\* min(rows-1, cols-1) calls of Transform; main's loop never reaches its cap of
\* 100, and the run comes to its end: every step takes it nearer to the end
\* by a measure that is never negative, and until the end a step can be taken.
C14_MasksBoundTheRun ==
  /\ [][MasksOnlySet /\ RunMeasure' < RunMeasure]_vars
  /\ [](/\ PivotUnmasked
        /\ TransformsBounded
        /\ CapNotReached
        /\ RunMeasure >= 0
        /\ RunOver \/ StepEnabled)

\* A finished run that made feasibility pivots and main-loop pivots, as many
\* together as the tableau has constraint rows.
C14_Witness ==
  /\ pc = "done"
  /\ feasRet.op = "MakeFeasible"
  /\ pivotCall.op = "Pivot"
  /\ xform.op = "Transform"
  /\ xform.in = pivotCall.in
  /\ transforms = Min(NumRows(st) - 1, NumCols(st) - 1)

====
